---- MODULE Spec2Model ----
(***************************************************************************)
(* MiniCarPy: the web control server (web_control.py: a heartbeat/receive  *)
(* thread running beside the /command request handler) and the keyboard    *)
(* controller (minicar.py: CANCarController and its run loop).             *)
(*                                                                         *)
(* Time is counted in whole seconds; every time.time() call reads `now`,   *)
(* and the clock may advance between any two steps of any thread.          *)
(***************************************************************************)
EXTENDS Integers, Sequences, FiniteSets, TLC

(* ------------------------------------------------------------------ *)
(* Bounds of the model                                                *)
(* ------------------------------------------------------------------ *)

\* time.time() when the process starts (seconds)
StartTime == 2

\* the clock stops advancing here
MaxTime == 8

\* frames the bus delivers to the web server in one run
MaxMessages == 2

(* ------------------------------------------------------------------ *)
(* web_control.py: constants                                          *)
(* ------------------------------------------------------------------ *)

CANID_MOTOR_CMD == 256

CANID_RX_HEARTBEAT == 259

CANID_TX_HEARTBEAT == 260

CMD_STOP == 0

CMD_FORWARD == 3

CMD_BACKWARD == 4

CMD_TURN_LEFT == 1

CMD_TURN_RIGHT == 2

\* the literal 1 of `time.time() - last_tx_heartbeat > 1`
TX_INTERVAL == 1

\* the literal 5 of `time.time() - last_rx_heartbeat > 5`
RX_TIMEOUT == 5

\* data.get('speed', 50)
DEFAULT_SPEED == 50

(* ------------------------------------------------------------------ *)
(* minicar.py: constants                                              *)
(* ------------------------------------------------------------------ *)

MotorCommand_CMD_STOP == 0

MotorCommand_CMD_FORWARD == 1

MotorCommand_CMD_BACKWARD == 2

MotorCommand_CMD_TURN_LEFT == 3

MotorCommand_CMD_TURN_RIGHT == 4

CAN_ID_MOTOR_CMD == 256

CAN_ID_EMERGENCY_STOP == 257

CAN_ID_CONFIG == 258

\* self.current_speed = 50
INITIAL_SPEED == 50

\* adjust_speed(10) / adjust_speed(-10)
SPEED_STEP == 10

\* send_config(max_speed=100, timeout_ms=1000)
CONFIG_MAX_SPEED == 100

CONFIG_TIMEOUT_MS == 1000

VARIABLES
    now,                \* the clock read by time.time()
    web_pc,             \* __main__ of web_control.py: "setup", "start_thread", "serving"
    bus,                \* the module global bus: "None" or "Bus"
    last_rx_heartbeat,
    last_tx_heartbeat,
    telemetry_data,
    hb_pc,              \* position of heartbeat_thread
    message,            \* heartbeat_thread's local: arbitration id received, 0 for none
    wire,               \* what the most recent step of the web server did on the bus
    k_pc,               \* position of minicar.py's main() / CANCarController.run()
    k_bus,              \* self.bus: "None" (not opened), "Bus", "closed" (after shutdown())
    current_speed,      \* self.current_speed
    running,            \* self.running
    last_command,       \* self.last_command
    k_exc,              \* the exception the finally block will re-raise, "" for none
    k_wire,             \* what the most recent step of the controller did on the bus
    k_log,              \* the controller's bus operations from the quit branch / cleanup on
    call                \* a function called on its own: its name, arguments and result

kbdVars == <<k_pc, k_bus, current_speed, running, last_command, k_exc, k_wire, k_log>>

webVars == <<web_pc, bus, last_rx_heartbeat, last_tx_heartbeat, telemetry_data,
             hb_pc, message, wire>>

fnVars == <<call>>

vars == <<now, webVars, kbdVars, fnVars>>

(* ------------------------------------------------------------------ *)
(* Bus operations as seen from outside                                *)
(* ------------------------------------------------------------------ *)

NoData == <<>>

Zero8 == <<0, 0, 0, 0, 0, 0, 0, 0>>

\* op: "none" (no bus call), "sent" (bus.send returned), "error" (bus.send raised and
\* was caught), "nobus" (bus is None), "raise" (can.Message refused the data)
BusOp(op, can_id, data) == [op |-> op, id |-> can_id, data |-> data]

NoWire == BusOp("none", 0, NoData)

\* can.Message(data=...) builds bytearray(data): every element must be a byte
IsByteList(data) == \A i \in 1..Len(data) : data[i] \in 0..255

(* ------------------------------------------------------------------ *)
(* web_control.py: send_can_frame                                     *)
(* ------------------------------------------------------------------ *)

\* send_can_frame(can_id, data); send_ok tells whether bus.send returns or raises.
\* ret is what the caller gets: "True", "False", or "raise" when can.Message(...)
\* (built outside the try) raises and the exception leaves send_can_frame.
send_can_frame(can_id, data, send_ok) ==
    IF bus = "None" THEN [ret |-> "False", wire |-> BusOp("nobus", can_id, data)]
    ELSE IF ~IsByteList(data) THEN [ret |-> "raise", wire |-> BusOp("raise", can_id, data)]
    ELSE IF send_ok THEN [ret |-> "True", wire |-> BusOp("sent", can_id, data)]
    ELSE [ret |-> "False", wire |-> BusOp("error", can_id, data)]

(* ------------------------------------------------------------------ *)
(* web_control.py: __main__ and setup_can_bus                         *)
(* ------------------------------------------------------------------ *)

\* telemetry_data as the module creates it
InitTelemetry ==
    [connected |-> FALSE, last_command |-> "STOP", heartbeat_ok |-> FALSE,
     messages_received |-> 0]

\* bus = setup_can_bus(): can.interface.Bus(...) returns or raises
setup_can_bus ==
    /\ web_pc = "setup"
    /\ \E opened \in BOOLEAN :
          /\ bus' = IF opened THEN "Bus" ELSE "None"
          /\ telemetry_data' = [telemetry_data EXCEPT !.connected = opened]
    /\ web_pc' = "start_thread"
    /\ wire' = NoWire
    /\ UNCHANGED <<fnVars, kbdVars, now, last_rx_heartbeat, last_tx_heartbeat, hb_pc, message>>

\* thread.start() followed by app.run(...): runs whether or not the bus opened
StartServer ==
    /\ web_pc = "start_thread"
    /\ web_pc' = "serving"
    /\ hb_pc' = "tx_check"
    /\ wire' = NoWire
    /\ UNCHANGED <<fnVars, kbdVars, now, bus, last_rx_heartbeat, last_tx_heartbeat, telemetry_data, message>>

(* ------------------------------------------------------------------ *)
(* web_control.py: heartbeat_thread, one action per statement         *)
(* ------------------------------------------------------------------ *)

\* time.time() - last_tx_heartbeat > 1
HeartbeatDue(t, last_tx) == t - last_tx > TX_INTERVAL

\* a plausible slip: the other heartbeat constant, whose name says RX
IsHeartbeat_rxid(can_id) == can_id = CANID_RX_HEARTBEAT

\* can_id == CANID_TX_HEARTBEAT
IsHeartbeat(can_id) == can_id = CANID_TX_HEARTBEAT

\* a plausible slip: >= in place of >
HeartbeatTimedOut_ge(t, last_rx) == last_rx > 0 /\ t - last_rx >= RX_TIMEOUT

\* last_rx_heartbeat > 0 and time.time() - last_rx_heartbeat > 5
HeartbeatTimedOut(t, last_rx) == last_rx > 0 /\ t - last_rx > RX_TIMEOUT

\* arbitration ids the bus may deliver
RxIds == {CANID_TX_HEARTBEAT, CANID_RX_HEARTBEAT, CANID_MOTOR_CMD}

\* a plausible slip: heartbeats sent only while the link is healthy
HbTxCheck_gated ==
    /\ hb_pc = "tx_check"
    /\ hb_pc' = IF HeartbeatDue(now, last_tx_heartbeat) /\ telemetry_data.heartbeat_ok
                THEN "tx_send" ELSE "recv"
    /\ wire' = NoWire
    /\ UNCHANGED <<fnVars, kbdVars, now, web_pc, bus, last_rx_heartbeat, last_tx_heartbeat,
                   telemetry_data, message>>

\* if time.time() - last_tx_heartbeat > 1:
HbTxCheck ==
    /\ hb_pc = "tx_check"
    /\ hb_pc' = IF HeartbeatDue(now, last_tx_heartbeat) THEN "tx_send" ELSE "recv"
    /\ wire' = NoWire
    /\ UNCHANGED <<fnVars, kbdVars, now, web_pc, bus, last_rx_heartbeat, last_tx_heartbeat,
                   telemetry_data, message>>

\* a plausible slip: the heartbeat send is repeated until it succeeds
HbTxSend_retry ==
    /\ hb_pc = "tx_send"
    /\ \E send_ok \in BOOLEAN :
          LET r == send_can_frame(CANID_RX_HEARTBEAT, Zero8, send_ok) IN
          /\ wire' = r.wire
          /\ hb_pc' = IF r.wire.op = "error" THEN "tx_send" ELSE "tx_stamp"
    /\ UNCHANGED <<fnVars, kbdVars, now, web_pc, bus, last_rx_heartbeat, last_tx_heartbeat,
                   telemetry_data, message>>

\* send_can_frame(CANID_RX_HEARTBEAT, [0x00] * 8); the result is ignored
HbTxSend ==
    /\ hb_pc = "tx_send"
    /\ \E send_ok \in BOOLEAN :
          wire' = send_can_frame(CANID_RX_HEARTBEAT, Zero8, send_ok).wire
    /\ hb_pc' = "tx_stamp"
    /\ UNCHANGED <<fnVars, kbdVars, now, web_pc, bus, last_rx_heartbeat, last_tx_heartbeat,
                   telemetry_data, message>>

\* last_tx_heartbeat = time.time()
HbTxStamp ==
    /\ hb_pc = "tx_stamp"
    /\ last_tx_heartbeat' = now
    /\ hb_pc' = "recv"
    /\ wire' = NoWire
    /\ UNCHANGED <<fnVars, kbdVars, now, web_pc, bus, last_rx_heartbeat, telemetry_data, message>>

\* if bus: message = bus.recv(timeout=0.01); if message: messages_received += 1
HbRecv ==
    /\ hb_pc = "recv"
    /\ \/ /\ bus = "Bus"
          /\ telemetry_data.messages_received < MaxMessages
          /\ \E can_id \in RxIds : message' = can_id
          /\ telemetry_data' =
                [telemetry_data EXCEPT !.messages_received = @ + 1]
          /\ hb_pc' = "route"
       \/ /\ message' = 0
          /\ hb_pc' = "timeout"
          /\ UNCHANGED telemetry_data
       \/ /\ bus = "Bus"            \* bus.recv raises: nothing in the thread catches it
          /\ message' = 0
          /\ hb_pc' = "dead"
          /\ UNCHANGED telemetry_data
    /\ wire' = NoWire
    /\ UNCHANGED <<fnVars, kbdVars, now, web_pc, bus, last_rx_heartbeat, last_tx_heartbeat>>

\* a plausible slip: the heartbeat_ok assignment dedented out of the if, so that
\* every received frame sets the flag
HbRoute_dedent ==
    /\ hb_pc = "route"
    /\ IF IsHeartbeat(message)
       THEN last_rx_heartbeat' = now
       ELSE UNCHANGED last_rx_heartbeat
    /\ hb_pc' = "set_ok"
    /\ wire' = NoWire
    /\ UNCHANGED <<fnVars, kbdVars, now, web_pc, bus, last_tx_heartbeat, telemetry_data, message>>

\* if can_id == CANID_TX_HEARTBEAT: last_rx_heartbeat = time.time()
HbRoute ==
    /\ hb_pc = "route"
    /\ IF IsHeartbeat(message)
       THEN /\ last_rx_heartbeat' = now
            /\ hb_pc' = "set_ok"
            /\ UNCHANGED message
       ELSE /\ hb_pc' = "timeout"
            /\ message' = 0
            /\ UNCHANGED last_rx_heartbeat
    /\ wire' = NoWire
    /\ UNCHANGED <<fnVars, kbdVars, now, web_pc, bus, last_tx_heartbeat, telemetry_data>>

\* telemetry_data['heartbeat_ok'] = True
HbSetOk ==
    /\ hb_pc = "set_ok"
    /\ telemetry_data' = [telemetry_data EXCEPT !.heartbeat_ok = TRUE]
    /\ hb_pc' = "timeout"
    /\ message' = 0
    /\ wire' = NoWire
    /\ UNCHANGED <<fnVars, kbdVars, now, web_pc, bus, last_rx_heartbeat, last_tx_heartbeat>>

\* if last_rx_heartbeat > 0 and time.time() - last_rx_heartbeat > 5:
\*     telemetry_data['heartbeat_ok'] = False
HbCheckTimeout ==
    /\ hb_pc = "timeout"
    /\ telemetry_data' =
          IF HeartbeatTimedOut(now, last_rx_heartbeat)
          THEN [telemetry_data EXCEPT !.heartbeat_ok = FALSE]
          ELSE telemetry_data
    /\ hb_pc' = "sleep"
    /\ wire' = NoWire
    /\ UNCHANGED <<fnVars, kbdVars, now, web_pc, bus, last_rx_heartbeat, last_tx_heartbeat, message>>

\* time.sleep(0.01), then the next iteration of while True
HbSleep ==
    /\ hb_pc = "sleep"
    /\ hb_pc' = "tx_check"
    /\ wire' = NoWire
    /\ UNCHANGED <<fnVars, kbdVars, now, web_pc, bus, last_rx_heartbeat, last_tx_heartbeat,
                   telemetry_data, message>>

heartbeat_thread ==
    \/ HbTxCheck
    \/ HbTxSend
    \/ HbTxStamp
    \/ HbRecv
    \/ HbRoute
    \/ HbSetOk
    \/ HbCheckTimeout
    \/ HbSleep

(* ------------------------------------------------------------------ *)
(* web_control.py: POST /command                                      *)
(* ------------------------------------------------------------------ *)

cmd_map ==
    [forward |-> CMD_FORWARD, backward |-> CMD_BACKWARD, left |-> CMD_TURN_LEFT,
     right |-> CMD_TURN_RIGHT, stop |-> CMD_STOP]

\* command.upper()
Upper(command) ==
    CASE command = "forward" -> "FORWARD"
      [] command = "backward" -> "BACKWARD"
      [] command = "left" -> "LEFT"
      [] command = "right" -> "RIGHT"
      [] command = "stop" -> "STOP"

\* The 'speed' member of the request body: absent, a JSON number (held in tenths,
\* so that 50.5 is 505), or a value int() refuses (a non-numeric string, null).
SpeedAbsent == [kind |-> "absent", tenths |-> 0]

SpeedBad == [kind |-> "bad", tenths |-> 0]

SpeedNum(tenths) == [kind |-> "num", tenths |-> tenths]

\* Python's int() of a number: truncation toward zero
PyInt(tenths) == IF tenths >= 0 THEN tenths \div 10 ELSE -((-tenths) \div 10)

\* int(data.get('speed', 50)); only called when int() accepts the value
IntSpeed(speed) ==
    IF speed.kind = "absent" THEN DEFAULT_SPEED ELSE PyInt(speed.tenths)

\* speed_value = 0 if command == 'stop' else int(speed)
SpeedValue(command, speed) == IF command = "stop" THEN 0 ELSE IntSpeed(speed)

\* A request body: {command, speed}
Request(command, speed) == [command |-> command, speed |-> speed]

\* request bodies tried: every command of cmd_map and one that is not, without a
\* speed; forward at -5, 50.5, 100, 150, 300 and a non-numeric speed; stop at 150
\* and with a non-numeric speed
WebRequests ==
    {Request(c, SpeedAbsent) :
        c \in {"forward", "backward", "left", "right", "stop", "spin"}}
    \cup {Request("forward", s) :
            s \in {SpeedBad, SpeedNum(-50), SpeedNum(505), SpeedNum(1000),
                   SpeedNum(1500), SpeedNum(3000)}}
    \cup {Request("stop", SpeedNum(1500)), Request("stop", SpeedBad)}

\* a plausible slip: a successful send taken as proof that the link is alive
CommandTelemetry_marks_ok(t, ret, command) ==
    IF ret = "True"
    THEN [t EXCEPT !.last_command = Upper(command), !.heartbeat_ok = TRUE]
    ELSE t

\* if success: telemetry_data['last_command'] = command.upper()
CommandTelemetry(t, ret, command) ==
    IF ret = "True" THEN [t EXCEPT !.last_command = Upper(command)] ELSE t

\* send_command(): one request, handled to its response
send_command ==
    /\ web_pc = "serving"
    /\ \E req \in WebRequests, send_ok \in BOOLEAN :
          LET command == req.command
              speed == req.speed
          IN IF command \notin DOMAIN cmd_map
             THEN \* 400 Invalid command
                  /\ wire' = NoWire
                  /\ UNCHANGED telemetry_data
             ELSE IF command # "stop" /\ speed.kind = "bad"
             THEN \* int(speed) raises: 500, nothing sent
                  /\ wire' = NoWire
                  /\ UNCHANGED telemetry_data
             ELSE LET cmd_value == cmd_map[command]
                      speed_value == SpeedValue(command, speed)
                      can_data == <<cmd_value, speed_value, 0, 0, 0, 0, 0, 0>>
                      r == send_can_frame(CANID_MOTOR_CMD, can_data, send_ok)
                  IN /\ wire' = r.wire
                     /\ telemetry_data' = CommandTelemetry(telemetry_data, r.ret, command)
    /\ UNCHANGED <<fnVars, kbdVars, now, web_pc, bus, last_rx_heartbeat, last_tx_heartbeat, hb_pc, message>>

(* ------------------------------------------------------------------ *)
(* minicar.py: CANCarController's senders                             *)
(* ------------------------------------------------------------------ *)

Min(a, b) == IF a < b THEN a ELSE b

Max(a, b) == IF a > b THEN a ELSE b

\* speed = max(0, min(100, speed))
ClampSpeed(speed) == Max(0, Min(100, speed))

\* if speed is None: speed = self.current_speed.  <<>> stands for None, <<v>> for v;
\* cur is self.current_speed when the method is entered.
EffectiveSpeed(speed, cur) == IF speed = <<>> THEN cur ELSE speed[1]

\* data = [command, speed, 0, 0, 0, 0, 0, 0] after the clamp
MotorData(command, speed, cur) ==
    <<command, ClampSpeed(EffectiveSpeed(speed, cur)), 0, 0, 0, 0, 0, 0>>

\* a plausible slip: self.last_command assigned before the try, whatever the send does
send_motor_command_records_first(command, speed, cur, last, send_ok) ==
    [wire |-> BusOp(IF send_ok THEN "sent" ELSE "error", CAN_ID_MOTOR_CMD,
                    MotorData(command, speed, cur)),
     last_command |-> command]

\* send_motor_command(command, speed): the bus operation and self.last_command after
\* it; send_ok tells whether self.bus.send returns or raises (the raise is caught).
send_motor_command(command, speed, cur, last, send_ok) ==
    IF send_ok
    THEN [wire |-> BusOp("sent", CAN_ID_MOTOR_CMD, MotorData(command, speed, cur)),
          last_command |-> command]
    ELSE [wire |-> BusOp("error", CAN_ID_MOTOR_CMD, MotorData(command, speed, cur)),
          last_command |-> last]

\* send_emergency_stop()
send_emergency_stop(send_ok) ==
    BusOp(IF send_ok THEN "sent" ELSE "error", CAN_ID_EMERGENCY_STOP,
          <<255, 0, 0, 0, 0, 0, 0, 0>>)

\* (timeout_ms >> 8) & 0xFF
TimeoutHigh(timeout_ms) == (timeout_ms \div 256) % 256

\* a plausible slip: the low byte taken without its mask
TimeoutLow_unmasked(timeout_ms) == timeout_ms

\* timeout_ms & 0xFF
TimeoutLow(timeout_ms) == timeout_ms % 256

\* data = [max_speed, timeout_high, timeout_low, 0, 0, 0, 0, 0]
ConfigData(max_speed, timeout_ms) ==
    <<max_speed, TimeoutHigh(timeout_ms), TimeoutLow(timeout_ms), 0, 0, 0, 0, 0>>

\* send_config(max_speed, timeout_ms)
send_config(max_speed, timeout_ms, send_ok) ==
    BusOp(IF send_ok THEN "sent" ELSE "error", CAN_ID_CONFIG,
          ConfigData(max_speed, timeout_ms))

\* a plausible slip: the new speed without its clamp
AdjustedSpeed_unclamped(cur, delta) == cur + delta

\* self.current_speed = max(0, min(100, self.current_speed + delta))
AdjustedSpeed(cur, delta) == Max(0, Min(100, cur + delta))

(* ------------------------------------------------------------------ *)
(* minicar.py: main() and __init__                                    *)
(* ------------------------------------------------------------------ *)

\* a plausible slip: the except branch of __init__ prints the error but has no
\* sys.exit(1), so main() goes on with a controller that has no bus
KbdOpen_noexit ==
    /\ k_pc = "init"
    /\ \E opened \in BOOLEAN :
          k_bus' = IF opened THEN "Bus" ELSE "None"
    /\ k_pc' = "config"
    /\ k_wire' = NoWire
    /\ UNCHANGED <<current_speed, running, last_command, k_exc, k_log>>
    /\ UNCHANGED <<now, webVars, fnVars>>

\* CANCarController(...): can.interface.Bus(...) returns, or raises and sys.exit(1)
KbdOpen ==
    /\ k_pc = "init"
    /\ \E opened \in BOOLEAN :
          IF opened
          THEN /\ k_bus' = "Bus"
               /\ k_pc' = "config"
          ELSE /\ k_bus' = "None"
               /\ k_pc' = "exited"
    /\ k_wire' = NoWire
    /\ UNCHANGED <<current_speed, running, last_command, k_exc, k_log>>
    /\ UNCHANGED <<now, webVars, fnVars>>

\* controller.send_config(max_speed=100, timeout_ms=1000)
KbdInitialConfig ==
    /\ k_pc = "config"
    /\ \E send_ok \in BOOLEAN :
          k_wire' = send_config(CONFIG_MAX_SPEED, CONFIG_TIMEOUT_MS, send_ok)
    /\ k_pc' = "print_controls"
    /\ UNCHANGED <<k_bus, current_speed, running, last_command, k_exc, k_log>>
    /\ UNCHANGED <<now, webVars, fnVars>>

\* run(): print_controls() and the two prints before the try block
KbdPrintControls ==
    /\ k_pc = "print_controls"
    /\ k_pc' = "loop"
    /\ k_wire' = NoWire
    /\ UNCHANGED <<k_bus, current_speed, running, last_command, k_exc, k_log>>
    /\ UNCHANGED <<now, webVars, fnVars>>

(* ------------------------------------------------------------------ *)
(* minicar.py: run(), the polling loop                                *)
(* ------------------------------------------------------------------ *)

Keys == {"w", "s", "a", "d", "space", "e", "c", "+", "=", "-", "_", "q"}

\* the keys held down during one pass of the elif chain: at most two at once
PressedSets == {S \in SUBSET Keys : Cardinality(S) <= 2}

\* the branch of the if/elif chain taken: the first one whose key is pressed
Branch(pressed) ==
    IF "w" \in pressed THEN "w"
    ELSE IF "s" \in pressed THEN "s"
    ELSE IF "a" \in pressed THEN "a"
    ELSE IF "d" \in pressed THEN "d"
    ELSE IF "space" \in pressed THEN "space"
    ELSE IF "e" \in pressed THEN "e"
    ELSE IF "c" \in pressed THEN "c"
    ELSE IF "+" \in pressed \/ "=" \in pressed THEN "plus"
    ELSE IF "-" \in pressed \/ "_" \in pressed THEN "minus"
    ELSE IF "q" \in pressed THEN "q"
    ELSE "none"

\* the command each movement branch sends
BranchCommand(branch) ==
    CASE branch = "w" -> MotorCommand_CMD_FORWARD
      [] branch = "s" -> MotorCommand_CMD_BACKWARD
      [] branch = "a" -> MotorCommand_CMD_TURN_LEFT
      [] branch = "d" -> MotorCommand_CMD_TURN_RIGHT
      [] branch = "space" -> MotorCommand_CMD_STOP

\* while self.running:
KbdLoopTest ==
    /\ k_pc = "loop"
    /\ k_pc' = IF running THEN "poll" ELSE "cleanup_stop"
    /\ k_wire' = NoWire
    /\ UNCHANGED <<k_bus, current_speed, running, last_command, k_exc, k_log>>
    /\ UNCHANGED <<now, webVars, fnVars>>

\* the w, s, a, d and space branches: self.send_motor_command(MotorCommand.CMD_...)
KbdMoveKey ==
    /\ k_pc = "poll"
    /\ \E pressed \in PressedSets, send_ok \in BOOLEAN :
          /\ Branch(pressed) \in {"w", "s", "a", "d", "space"}
          /\ LET r == send_motor_command(BranchCommand(Branch(pressed)), <<>>,
                                         current_speed, last_command, send_ok)
             IN /\ k_wire' = r.wire
                /\ last_command' = r.last_command
    /\ k_pc' = "sleep"
    /\ UNCHANGED <<k_bus, current_speed, running, k_exc, k_log>>
    /\ UNCHANGED <<now, webVars, fnVars>>

\* the e branch: self.send_emergency_stop()
KbdEmergencyKey ==
    /\ k_pc = "poll"
    /\ \E pressed \in PressedSets, send_ok \in BOOLEAN :
          /\ Branch(pressed) = "e"
          /\ k_wire' = send_emergency_stop(send_ok)
    /\ k_pc' = "sleep"
    /\ UNCHANGED <<k_bus, current_speed, running, last_command, k_exc, k_log>>
    /\ UNCHANGED <<now, webVars, fnVars>>

\* the c branch: self.send_config()
KbdConfigKey ==
    /\ k_pc = "poll"
    /\ \E pressed \in PressedSets, send_ok \in BOOLEAN :
          /\ Branch(pressed) = "c"
          /\ k_wire' = send_config(CONFIG_MAX_SPEED, CONFIG_TIMEOUT_MS, send_ok)
    /\ k_pc' = "sleep"
    /\ UNCHANGED <<k_bus, current_speed, running, last_command, k_exc, k_log>>
    /\ UNCHANGED <<now, webVars, fnVars>>

\* adjust_speed(delta): the new speed, then the last command again unless it is Stop
adjust_speed(delta, send_ok) ==
    LET speed == AdjustedSpeed(current_speed, delta)
    IN /\ current_speed' = speed
       /\ IF last_command # MotorCommand_CMD_STOP
          THEN LET r == send_motor_command(last_command, <<>>, speed, last_command,
                                           send_ok)
               IN /\ k_wire' = r.wire
                  /\ last_command' = r.last_command
          ELSE /\ k_wire' = NoWire
               /\ UNCHANGED last_command

\* the + / = and - / _ branches: self.adjust_speed(10), self.adjust_speed(-10)
KbdSpeedKey ==
    /\ k_pc = "poll"
    /\ \E pressed \in PressedSets, send_ok \in BOOLEAN :
          /\ Branch(pressed) \in {"plus", "minus"}
          /\ adjust_speed(IF Branch(pressed) = "plus" THEN SPEED_STEP ELSE -SPEED_STEP,
                          send_ok)
    /\ k_pc' = "sleep"
    /\ UNCHANGED <<k_bus, running, k_exc, k_log>>
    /\ UNCHANGED <<now, webVars, fnVars>>

\* the q branch: self.send_motor_command(MotorCommand.CMD_STOP); self.running = False
KbdQuitKey ==
    /\ k_pc = "poll"
    /\ \E pressed \in PressedSets, send_ok \in BOOLEAN :
          /\ Branch(pressed) = "q"
          /\ LET r == send_motor_command(MotorCommand_CMD_STOP, <<>>, current_speed,
                                         last_command, send_ok)
             IN /\ k_wire' = r.wire
                /\ last_command' = r.last_command
                /\ k_log' = Append(k_log, r.wire)
    /\ running' = FALSE
    /\ k_pc' = "sleep"
    /\ UNCHANGED <<k_bus, current_speed, k_exc>>
    /\ UNCHANGED <<now, webVars, fnVars>>

\* no branch taken
KbdNoKey ==
    /\ k_pc = "poll"
    /\ k_pc' = "sleep"
    /\ k_wire' = NoWire
    /\ UNCHANGED <<k_bus, current_speed, running, last_command, k_exc, k_log>>
    /\ UNCHANGED <<now, webVars, fnVars>>

\* keyboard.is_pressed(...) raises something that is not KeyboardInterrupt: the
\* except clause does not match, the finally block runs and the exception goes on
KbdPollRaises ==
    /\ k_pc = "poll"
    /\ k_exc' = "Exception"
    /\ k_pc' = "cleanup_stop"
    /\ k_wire' = NoWire
    /\ UNCHANGED <<k_bus, current_speed, running, last_command, k_log>>
    /\ UNCHANGED <<now, webVars, fnVars>>

\* time.sleep(...) at the end of the branch and of the iteration
KbdSleep ==
    /\ k_pc = "sleep"
    /\ k_pc' = "loop"
    /\ k_wire' = NoWire
    /\ UNCHANGED <<k_bus, current_speed, running, last_command, k_exc, k_log>>
    /\ UNCHANGED <<now, webVars, fnVars>>

(* ------------------------------------------------------------------ *)
(* minicar.py: cleanup() and KeyboardInterrupt                        *)
(* ------------------------------------------------------------------ *)

\* cleanup(): self.send_motor_command(MotorCommand.CMD_STOP)
KbdCleanupStop ==
    /\ k_pc = "cleanup_stop"
    /\ \E send_ok \in BOOLEAN :
          LET r == send_motor_command(MotorCommand_CMD_STOP, <<>>, current_speed,
                                      last_command, send_ok)
          IN /\ k_wire' = r.wire
             /\ last_command' = r.last_command
             /\ k_log' = Append(k_log, r.wire)
    /\ k_pc' = "cleanup_sleep"
    /\ UNCHANGED <<k_bus, current_speed, running, k_exc>>
    /\ UNCHANGED <<now, webVars, fnVars>>

\* cleanup(): time.sleep(0.1)
KbdCleanupSleep ==
    /\ k_pc = "cleanup_sleep"
    /\ k_pc' = "cleanup_shutdown"
    /\ k_wire' = NoWire
    /\ UNCHANGED <<k_bus, current_speed, running, last_command, k_exc, k_log>>
    /\ UNCHANGED <<now, webVars, fnVars>>

\* cleanup(): self.bus.shutdown(); then run() returns, or the pending exception goes on
KbdCleanupShutdown ==
    /\ k_pc = "cleanup_shutdown"
    /\ k_bus' = "closed"
    /\ k_wire' = BusOp("shutdown", 0, NoData)
    /\ k_log' = Append(k_log, BusOp("shutdown", 0, NoData))
    /\ k_pc' = IF k_exc = "" THEN "done" ELSE "crashed"
    /\ UNCHANGED <<current_speed, running, last_command, k_exc>>
    /\ UNCHANGED <<now, webVars, fnVars>>

\* Ctrl-C. Inside the try block it is caught and the finally block runs cleanup();
\* before the try block, or inside cleanup(), nothing catches it.
KbdInterrupt ==
    /\ \/ /\ k_pc \in {"loop", "poll", "sleep"}
          /\ k_pc' = "cleanup_stop"
       \/ /\ k_pc \in {"config", "print_controls", "cleanup_stop", "cleanup_sleep",
                       "cleanup_shutdown"}
          /\ k_pc' = "killed"
    /\ k_wire' = NoWire
    /\ UNCHANGED <<k_bus, current_speed, running, last_command, k_exc, k_log>>
    /\ UNCHANGED <<now, webVars, fnVars>>

KbdInit ==
    /\ k_pc = "init"
    /\ k_bus = "None"
    /\ current_speed = INITIAL_SPEED
    /\ running = TRUE
    /\ last_command = MotorCommand_CMD_STOP
    /\ k_exc = ""
    /\ k_wire = NoWire
    /\ k_log = <<>>

(* ------------------------------------------------------------------ *)
(* The clock                                                          *)
(* ------------------------------------------------------------------ *)

\* one second passes
Tick ==
    /\ now < MaxTime
    /\ now' = now + 1
    /\ UNCHANGED <<webVars, kbdVars, fnVars>>

(* ------------------------------------------------------------------ *)
(* The web server                                                     *)
(* ------------------------------------------------------------------ *)

WebInit ==
    /\ web_pc = "setup"
    /\ bus = "None"
    /\ last_rx_heartbeat = 0
    /\ last_tx_heartbeat = 0
    /\ telemetry_data = InitTelemetry
    /\ hb_pc = "idle"
    /\ message = 0
    /\ wire = NoWire

\* no function has been called on its own
NoCall == [fn |-> "none", args |-> <<>>, out |-> <<>>]

Init ==
    /\ now = StartTime
    /\ WebInit
    /\ KbdInit
    /\ call = NoCall

Next ==
    \/ setup_can_bus
    \/ StartServer
    \/ heartbeat_thread
    \/ send_command
    \/ Tick

\* the web server (web_control.py)
Spec == Init /\ [][Next]_vars

KbdNext ==
    \/ KbdOpen
    \/ KbdInitialConfig
    \/ KbdPrintControls
    \/ KbdLoopTest
    \/ KbdMoveKey
    \/ KbdEmergencyKey
    \/ KbdConfigKey
    \/ KbdSpeedKey
    \/ KbdQuitKey
    \/ KbdNoKey
    \/ KbdPollRaises
    \/ KbdSleep
    \/ KbdCleanupStop
    \/ KbdCleanupSleep
    \/ KbdCleanupShutdown
    \/ KbdInterrupt

\* the keyboard controller (minicar.py)
KbdSpec == Init /\ [][KbdNext]_vars

\* one of the two programs is run: whichever takes the first step goes on alone
EitherNext ==
    \/ /\ k_pc = "init"
       /\ Next
    \/ /\ web_pc = "setup"
       /\ KbdNext

EitherSpec == Init /\ [][EitherNext]_vars

(* ------------------------------------------------------------------ *)
(* Properties                                                         *)
(* ------------------------------------------------------------------ *)

\* a motor-command frame that went out on the bus
IsMotorFrame(w, motor_id) == w.op = "sent" /\ w.id = motor_id

heartbeat_ok == telemetry_data.heartbeat_ok

\* the health state of the supervisor, read off the two fields that carry it
Unknown == ~heartbeat_ok /\ last_rx_heartbeat = 0

Healthy == heartbeat_ok

\* (at "set_ok" a heartbeat frame is half handled: stamped, flag not yet set)
Unhealthy == ~heartbeat_ok /\ last_rx_heartbeat > 0 /\ hb_pc # "set_ok"

\* C1: every motor-command frame whose command is Stop carries speed byte 0, in the
\* keyboard controller (space key, quit, cleanup) and in the web /command handler.
C1_StopCarriesZeroSpeed ==
    /\ (IsMotorFrame(k_wire, CAN_ID_MOTOR_CMD) /\ k_wire.data[1] = MotorCommand_CMD_STOP)
          => k_wire.data[2] = 0
    /\ (IsMotorFrame(wire, CANID_MOTOR_CMD) /\ wire.data[1] = CMD_STOP)
          => wire.data[2] = 0

\* C2: every motor-command frame sent on CAN id 0x100, by the keyboard controller or
\* by the web /command handler, has byte1 in 0..100 (the clamp of the supplied
\* speed), byte0 a command code and bytes 2..7 zero.
C2_SpeedByteClamped ==
    /\ IsMotorFrame(k_wire, CAN_ID_MOTOR_CMD) =>
          /\ k_wire.data[1] \in MotorCommand_CMD_STOP..MotorCommand_CMD_TURN_RIGHT
          /\ k_wire.data[2] \in 0..100
          /\ \A i \in 3..8 : k_wire.data[i] = 0
    /\ IsMotorFrame(wire, CANID_MOTOR_CMD) =>
          /\ wire.data[1] \in {CMD_STOP, CMD_FORWARD, CMD_BACKWARD, CMD_TURN_LEFT,
                               CMD_TURN_RIGHT}
          /\ wire.data[2] \in 0..100
          /\ \A i \in 3..8 : wire.data[i] = 0

\* a step of heartbeat_thread's timeout check (lines 95-96)
TimeoutCheckStep == hb_pc = "timeout" /\ hb_pc' = "sleep"

\* C3: when the timeout check finds the state Healthy with now - last_rx_time >
\* rx_timeout, it makes the state Unhealthy and resets last_rx_time to 0.
C3_TimeoutResetsLastRx ==
    [][(TimeoutCheckStep /\ Healthy /\ now - last_rx_heartbeat > RX_TIMEOUT)
          => (~heartbeat_ok' /\ last_rx_heartbeat' = 0)]_vars

\* C4: heartbeat_ok is false from the start until the first heartbeat frame has been
\* received: heartbeat_ok implies last_rx_heartbeat > 0, and it is never true while
\* the bus is unavailable.
C4_HealthyOnlyAfterReceive ==
    /\ heartbeat_ok => last_rx_heartbeat > 0
    /\ bus = "None" => ~heartbeat_ok

\* a heartbeat frame has been received and has made the flag true
C4_Witness == heartbeat_ok /\ last_rx_heartbeat > 0 /\ bus = "Bus"

\* C5: a received frame with CAN id 0x104 sets last_rx_time to the current time and
\* makes the state Healthy, whatever the state was; a received frame with any other
\* id leaves last_rx_time and the health flag as they were.
C5_ReceiveRouting ==
    [][/\ (hb_pc = "route" /\ hb_pc' # "route") =>
             IF message = CANID_TX_HEARTBEAT
             THEN /\ last_rx_heartbeat' = now
                  /\ hb_pc' = "set_ok"
             ELSE /\ hb_pc' = "timeout"
                  /\ UNCHANGED <<last_rx_heartbeat, telemetry_data>>
       /\ (hb_pc = "set_ok" /\ hb_pc' # "set_ok") =>
             /\ heartbeat_ok'
             /\ UNCHANGED last_rx_heartbeat]_vars

\* the link was Unhealthy and the heartbeat frame just received has stamped
\* last_rx_heartbeat and is about to set the flag
C5_Witness ==
    /\ hb_pc = "set_ok"
    /\ message = CANID_TX_HEARTBEAT
    /\ ~heartbeat_ok
    /\ last_rx_heartbeat = now
    /\ now > StartTime + RX_TIMEOUT

\* C6: the timeout check clears the flag exactly when a heartbeat has been received
\* and the silence is strictly longer than rx_timeout; at a silence of rx_timeout or
\* less, or with no receive ever, the check changes nothing.
C6_TimeoutIsStrict ==
    [][TimeoutCheckStep =>
          IF last_rx_heartbeat > 0 /\ now - last_rx_heartbeat > RX_TIMEOUT
          THEN ~heartbeat_ok'
          ELSE UNCHANGED telemetry_data]_vars

\* the check has run at a silence of exactly rx_timeout and the flag is still true
C6_Witness ==
    /\ hb_pc = "sleep"
    /\ heartbeat_ok
    /\ now - last_rx_heartbeat = RX_TIMEOUT

\* C7: once Unhealthy, the flag stays false through every tick, timeout check,
\* command send and non-heartbeat receive: it becomes true only in the step that
\* handles a received frame with CAN id 0x104.
C7_UnhealthyLatch ==
    [][(~heartbeat_ok /\ heartbeat_ok')
          => (hb_pc = "set_ok" /\ message = CANID_TX_HEARTBEAT)]_vars

\* Unhealthy, and a motor command has just gone out on the bus
C7_Witness ==
    /\ Unhealthy
    /\ IsMotorFrame(wire, CANID_MOTOR_CMD)

\* C8: on every tick where now - last_tx_time >= tx_interval, equality included, the
\* heartbeat frame is emitted; below tx_interval none is and last_tx_time is unchanged.
C8_HeartbeatAtInterval ==
    [][(hb_pc = "tx_check" /\ hb_pc' # "tx_check") =>
          IF now - last_tx_heartbeat >= TX_INTERVAL
          THEN hb_pc' = "tx_send"
          ELSE hb_pc' = "recv" /\ UNCHANGED last_tx_heartbeat]_vars

\* C9: whether a heartbeat is emitted and whether a motor command is sent does not
\* depend on the health flag. In every state, Unknown and Unhealthy included: the
\* thread at its interval test goes on to send exactly when now - last_tx_heartbeat
\* exceeds tx_interval; at the send, with the bus open, the heartbeat frame can go
\* out; and while the server runs with the bus open a /command request can put its
\* motor frame on the bus.
C9_TransmissionIgnoresHealth ==
    /\ hb_pc = "tx_check" =>
          /\ (ENABLED (heartbeat_thread /\ hb_pc' = "tx_send"))
                <=> (now - last_tx_heartbeat > TX_INTERVAL)
          /\ (ENABLED (heartbeat_thread /\ hb_pc' = "recv"))
                <=> ~(now - last_tx_heartbeat > TX_INTERVAL)
    /\ (hb_pc = "tx_send" /\ bus = "Bus") =>
          ENABLED (heartbeat_thread /\ wire' = BusOp("sent", CANID_RX_HEARTBEAT, Zero8))
    /\ (web_pc = "serving" /\ bus = "Bus") =>
          ENABLED (send_command /\ IsMotorFrame(wire', CANID_MOTOR_CMD))

\* Unhealthy, and a heartbeat frame has just gone out on the bus
C9_Witness ==
    /\ Unhealthy
    /\ wire = BusOp("sent", CANID_RX_HEARTBEAT, Zero8)

\* the Stop attempts (sent or failed) among the bus operations since shutdown began
StopAttempts(log) ==
    {i \in 1..Len(log) :
        /\ log[i].op \in {"sent", "error"}
        /\ log[i].id = CAN_ID_MOTOR_CMD
        /\ log[i].data[1] = MotorCommand_CMD_STOP}

\* C10: on shutdown by the quit key exactly one final Stop command is sent, before
\* bus.shutdown(); nothing is sent after bus.shutdown() and no second Stop is sent.
C10_OneFinalStop ==
    (k_pc = "done" /\ ~running) =>
        /\ Cardinality(StopAttempts(k_log)) = 1
        /\ k_log[Len(k_log)].op = "shutdown"
        /\ \A i \in StopAttempts(k_log) : i < Len(k_log)

\* the controller process has ended after its bus was opened
KbdEnded == k_pc \in {"done", "crashed", "killed"}

\* C11: once the bus has been opened it is closed (bus.shutdown() is called) on every
\* exit path of the controller: quit, KeyboardInterrupt in the loop, another
\* exception in the loop, a failed final Stop, and an interrupt that arrives during
\* cleanup or before the loop's try block is entered.
C11_BusClosedOnEveryExit == KbdEnded => k_bus = "closed"

\* C12 as stated: after a failed open neither program enters a loop: the keyboard
\* controller never leaves __init__, and the web variant starts no heartbeat loop and
\* handles no command.
C12_FailedOpenIsFatal ==
    /\ k_bus = "None" => (k_pc \in {"init", "exited"} /\ k_wire = NoWire)
    /\ (web_pc # "setup" /\ bus = "None") =>
          (hb_pc = "idle" /\ web_pc # "serving" /\ wire = NoWire)

\* C12: after a failed open the keyboard controller exits without sending a frame or
\* entering its loop; the web variant goes on without a bus (its heartbeat thread and
\* its /command handler run) but no frame is put on a bus, nothing is received, and
\* the telemetry never shows a connection or a healthy heartbeat.
C12_FailedOpenSendsNothing ==
    /\ k_bus = "None" =>
          /\ k_pc \in {"init", "exited"}
          /\ k_wire = NoWire
          /\ k_log = <<>>
    /\ k_pc = "exited" => ~ENABLED KbdNext
    /\ (web_pc # "setup" /\ bus = "None") =>
          /\ wire.op \in {"none", "nobus"}
          /\ ~telemetry_data.connected
          /\ ~heartbeat_ok
          /\ telemetry_data.messages_received = 0
          /\ telemetry_data.last_command = InitTelemetry.last_command
          /\ last_rx_heartbeat = 0

\* the web variant without a bus: the server runs, the heartbeat thread has been
\* round its loop, and a send has just found that there is no bus
C12_Witness ==
    /\ web_pc = "serving"
    /\ bus = "None"
    /\ last_tx_heartbeat > 0
    /\ wire.op = "nobus"
    /\ wire.id = CANID_MOTOR_CMD

\* where the keyboard controller goes on after a send, whatever its outcome
AfterSend(pc) ==
    CASE pc = "config" -> "print_controls"
      [] pc = "poll" -> "sleep"
      [] pc = "cleanup_stop" -> "cleanup_sleep"
      [] OTHER -> pc

\* C13: a failed bus.send is not fatal and is not retried. In the keyboard controller
\* the step whose send fails goes on exactly where a successful send goes on, raises
\* nothing, leaves the bus open, and the step after it sends nothing. In the web
\* variant every heartbeat send, failed or not, is followed by the time stamp, which
\* is taken whatever the outcome (so the heartbeat is not due again at once), a failed
\* command send leaves the heartbeat thread and the server running, and the thread
\* dies of no send.
C13_WriteFailureNotFatal ==
    [][/\ (k_wire'.op = "error" /\ k_pc' # k_pc) =>
             /\ k_pc' = AfterSend(k_pc)
             /\ k_exc' = k_exc
             /\ k_bus' = k_bus
       /\ (k_wire.op = "error" /\ k_pc' # k_pc) => k_wire'.op \notin {"sent", "error"}
       /\ wire'.id = CANID_RX_HEARTBEAT => hb_pc' = "tx_stamp"
       /\ (hb_pc = "tx_stamp" /\ hb_pc' # hb_pc) =>
             /\ hb_pc' = "recv"
             /\ last_tx_heartbeat' = now
             /\ wire'.op \notin {"sent", "error"}
       /\ (wire'.op = "error" /\ wire'.id = CANID_MOTOR_CMD) =>
             /\ hb_pc' = hb_pc
             /\ web_pc' = "serving"
       /\ hb_pc' = "dead" => hb_pc \in {"recv", "dead"}
      ]_vars

\* a heartbeat send has just failed and the thread is about to take the time stamp
C13_Witness ==
    /\ wire = BusOp("error", CANID_RX_HEARTBEAT, Zero8)
    /\ hb_pc = "tx_stamp"

\* the directions, named as the web command map names them
Directions == {"stop", "forward", "backward", "left", "right"}

\* the key whose branch drives each direction in the keyboard controller
DirectionKey ==
    [forward |-> "w", backward |-> "s", left |-> "a", right |-> "d", stop |-> "space"]

\* C14: one command table: byte0 of a motor-command frame the keyboard controller
\* sends for a direction is the code the web command map gives to that direction.
C14_OneCommandTable ==
    IsMotorFrame(k_wire, CAN_ID_MOTOR_CMD) =>
        \A d \in Directions :
            k_wire.data[1] = BranchCommand(DirectionKey[d]) => cmd_map[d] = k_wire.data[1]

\* the heartbeat thread is inside its update of the shared record: it has counted a
\* received frame (line 88) and has not yet finished lines 90-92
InReceiveUpdate == hb_pc \in {"route", "set_ok"}

\* C15: the shared heartbeat timestamps and telemetry record are accessed under mutual
\* exclusion: while the heartbeat thread is inside its update of them, no other task
\* writes them.
C15_ExclusiveAccess ==
    [][(InReceiveUpdate /\ hb_pc' = hb_pc) =>
          UNCHANGED <<telemetry_data, last_rx_heartbeat, last_tx_heartbeat>>]_vars

(* ------------------------------------------------------------------ *)
(* send_config called on its own                                      *)
(* ------------------------------------------------------------------ *)

\* the (max_speed, timeout_ms) pairs send_config is called with: every timeout of 16
\* bits at the ends of the speed range, and every speed byte at three timeouts
ConfigInputs ==
    ({0, 255} \X (0..65535)) \cup ((0..255) \X {0, 1000, 65535})

\* controller.send_config(max_speed, timeout_ms) on a constructed controller
CallSendConfig ==
    /\ call = NoCall
    /\ \E p \in ConfigInputs, send_ok \in BOOLEAN :
          call' = [fn |-> "send_config", args |-> p,
                   out |-> send_config(p[1], p[2], send_ok)]
    /\ UNCHANGED <<now, webVars, kbdVars>>

ConfigSpec == Init /\ [][CallSendConfig]_vars

\* C16: for max_speed in 0..255 and timeout_ms in 0..65535, send_config makes one
\* send of a frame on CAN id 0x102 whose payload is max_speed, the high byte of
\* timeout_ms, the low byte of timeout_ms and five zero bytes: byte1 * 256 + byte2 is
\* timeout_ms and every byte is in 0..255.
C16_ConfigPayload ==
    call.fn = "send_config" =>
        LET max_speed == call.args[1]
            timeout_ms == call.args[2]
            frame == call.out
        IN  /\ frame.op \in {"sent", "error"}
            /\ frame.id = 258
            /\ Len(frame.data) = 8
            /\ frame.data[1] = max_speed
            /\ frame.data[2] = timeout_ms \div 256
            /\ frame.data[3] = timeout_ms % 256
            /\ frame.data[2] * 256 + frame.data[3] = timeout_ms
            /\ \A i \in 4..8 : frame.data[i] = 0
            /\ \A i \in 1..8 : frame.data[i] \in 0..255

\* the largest arguments of the claim: all three bytes are 255
C16_Witness ==
    /\ call.fn = "send_config"
    /\ call.args = <<255, 65535>>
    /\ call.out = BusOp("sent", CAN_ID_CONFIG, <<255, 255, 255, 0, 0, 0, 0, 0>>)

(* ------------------------------------------------------------------ *)
(* The serial bridge frame (FrameCodec), as the specification gives it *)
(* ------------------------------------------------------------------ *)

\* byte k of a frame, counted from 0 as the layout counts
Byte(frame, k) == frame[k + 1]

RECURSIVE SumBytes(_)
SumBytes(s) == IF s = <<>> THEN 0 ELSE Head(s) + SumBytes(Tail(s))

\* byte19 = (sum of bytes0..18 modulo 256) + 1, truncated to 8 bits
Checksum(first19) == ((SumBytes(first19) % 256) + 1) % 256

\* payload slot i (0..7): the payload byte, or zero fill beyond the payload
PayloadSlot(payload, i) == IF i < Len(payload) THEN payload[i + 1] ELSE 0

\* bytes 0..18 of the frame: AA 55, the CAN id in bytes 3 and 5, dlc in byte 9, the
\* payload window in bytes 10..17; the reserved bytes as the concrete scenario lists
\* them (01 01 01 00 00, and 00 in byte 18)
FrameHead(can_id, payload) ==
    <<170, 85, 1, can_id \div 256, 1, can_id % 256, 1, 0, 0, Len(payload)>>
    \o [i \in 1..8 |-> PayloadSlot(payload, i - 1)]
    \o <<0>>

\* encode(can_id, payload) -> Frame[20]
encode(can_id, payload) ==
    LET head == FrameHead(can_id, payload) IN head \o <<Checksum(head)>>

\* a plausible slip: the CAN id read from two adjacent bytes
FrameId_adjacent(frame) == Byte(frame, 3) * 256 + Byte(frame, 4)

\* the CAN id rebuilt from byte 3 (high) and byte 5 (low)
FrameId(frame) == Byte(frame, 3) * 256 + Byte(frame, 5)

\* dlc from byte 9, clamped to 8
FrameDlc(frame) == Min(Byte(frame, 9), 8)

\* decode(bytes) -> (can_id, payload) or a FrameError
decode(frame) ==
    IF Byte(frame, 0) # 170 \/ Byte(frame, 1) # 85
    THEN [ok |-> FALSE, error |-> "InvalidHeader"]
    ELSE IF Byte(frame, 19) # Checksum(SubSeq(frame, 1, 19))
    THEN [ok |-> FALSE, error |-> "ChecksumMismatch"]
    ELSE [ok |-> TRUE, can_id |-> FrameId(frame),
          payload |-> SubSeq(frame, 11, 10 + FrameDlc(frame))]

\* the control loop's receive step: decode, then route by can_id on success and drop
\* the frame on a FrameError
Receive(frame) ==
    LET r == decode(frame) IN
    [frame |-> frame, result |-> r,
     routed |-> IF r.ok THEN <<r.can_id>> ELSE <<>>]

\* the CAN ids and payloads frames are built from: ids at the ends of the 11-bit range
\* and around the byte border, and 0x5F0, with which the byte sum reaches 255 and the
\* checksum wraps to 0; payloads of every length 0..8
CodecIds == {0, 1, 255, 256, 260, 1520, 2047}

RECURSIVE SeqsUpTo(_, _)
SeqsUpTo(S, n) ==
    IF n = 0 THEN {<<>>}
    ELSE LET shorter == SeqsUpTo(S, n - 1) IN
         shorter \cup {Append(s, b) : s \in {t \in shorter : Len(t) = n - 1}, b \in S}

CodecPayloads == SeqsUpTo({0, 1, 255}, 8) \cup {<<3, 50, 0, 0, 0, 0, 0, 0>>}

\* frames off the wire with one byte changed
DamagedFrom == {<<>>, <<3, 50, 0, 0, 0, 0, 0, 0>>, <<255, 255, 255>>}

DamagedFrames ==
    {[encode(can_id, payload) EXCEPT ![k] = b] :
        can_id \in {256, 2047}, payload \in DamagedFrom, k \in 1..20,
        b \in {0, 1, 85, 170, 255}}

\* decode(encode(can_id, payload)) at the receiving end
CallRoundTrip ==
    /\ call = NoCall
    /\ \E can_id \in CodecIds, payload \in CodecPayloads :
          call' = [fn |-> "roundtrip", args |-> <<can_id, payload>>,
                   out |-> Receive(encode(can_id, payload))]
    /\ UNCHANGED <<now, webVars, kbdVars>>

\* a damaged frame arrives
CallReceiveDamaged ==
    /\ call = NoCall
    /\ \E frame \in DamagedFrames :
          call' = [fn |-> "receive", args |-> <<frame>>, out |-> Receive(frame)]
    /\ UNCHANGED <<now, webVars, kbdVars>>

CodecNext == CallRoundTrip \/ CallReceiveDamaged

CodecSpec == Init /\ [][CodecNext]_vars

\* the frame has the sync header and a checksum that matches its first 19 bytes
WellFormed(frame) ==
    /\ Len(frame) = 20
    /\ \A k \in 0..19 : Byte(frame, k) \in 0..255
    /\ Byte(frame, 0) = 170
    /\ Byte(frame, 1) = 85
    /\ (SumBytes(SubSeq(frame, 1, 19)) + 1 - Byte(frame, 19)) % 256 = 0

\* C17: for every CAN id <= 0x7FF and payload of length 0..8, decoding the 20-byte
\* frame that encode produces gives back the same (can_id, payload); and a received
\* frame is routed only if its header and checksum are valid.
C17_FrameRoundTrip ==
    /\ call.fn = "roundtrip" =>
          /\ WellFormed(call.out.frame)
          /\ call.out.result = [ok |-> TRUE, can_id |-> call.args[1],
                                payload |-> call.args[2]]
          /\ call.out.routed = <<call.args[1]>>
    /\ call.fn = "receive" =>
          (call.out.routed # <<>> <=> WellFormed(call.out.frame))

\* a round trip of a full payload whose checksum wraps to 0
C17_Witness ==
    /\ call.fn = "roundtrip"
    /\ Len(call.args[2]) = 8
    /\ call.args[1] = 1520
    /\ Byte(call.out.frame, 19) = 0
    /\ call.out.result.ok

\* C18: shutdown by the quit key is cooperative and terminates: once the quit key has
\* been observed running is false, the loop polls no key again, and when the process
\* has ended cleanup has run to completion: the final Stop was attempted and the bus
\* was then shut down.
C18_QuitRunsCleanupToCompletion ==
    ~running =>
        /\ k_pc # "poll"
        /\ (k_pc \in {"done", "crashed", "killed"}) =>
              /\ k_pc = "done"
              /\ k_bus = "closed"
              /\ k_log # <<>>
              /\ k_log[Len(k_log)].op = "shutdown"
              /\ \E i \in StopAttempts(k_log) : i < Len(k_log)

\* the recorded last command of the web variant
web_last_command == telemetry_data.last_command

\* C19: the recorded last command follows successful sends only. In the keyboard
\* controller last_command changes only in a step that sent a motor command, and
\* after such a step it is the command sent; in the web variant telemetry
\* last_command changes only in a step that sent a motor command, and after such a
\* step it is the upper-cased name of the command sent. A failed send, a missing bus
\* and an invalid command leave it unchanged.
C19_LastCommandOnlyOnSuccess ==
    [][/\ last_command' # last_command => IsMotorFrame(k_wire', CAN_ID_MOTOR_CMD)
       /\ IsMotorFrame(k_wire', CAN_ID_MOTOR_CMD) => last_command' = k_wire'.data[1]
       /\ web_last_command' # web_last_command => IsMotorFrame(wire', CANID_MOTOR_CMD)
       /\ IsMotorFrame(wire', CANID_MOTOR_CMD) =>
             \E d \in Directions :
                /\ cmd_map[d] = wire'.data[1]
                /\ web_last_command' = Upper(d)
      ]_vars

\* a Forward send has just failed and the recorded command is still Backward
C19_Witness ==
    /\ k_wire.op = "error"
    /\ k_wire.id = CAN_ID_MOTOR_CMD
    /\ k_wire.data[1] = MotorCommand_CMD_FORWARD
    /\ last_command = MotorCommand_CMD_BACKWARD

\* C20: from the initial speed 50, current_speed stays in 0..100 under adjust_speed:
\* a step that changes it moves it by 10 and saturates at 0 and 100; that step sends
\* the last command again with the new speed when the last command is not Stop, and
\* sends nothing when it is Stop.
C20_AdjustSpeedSaturates ==
    [][/\ current_speed' \in 0..100
       /\ current_speed' # current_speed =>
             /\ \/ current_speed' = Min(100, current_speed + 10)
                \/ current_speed' = Max(0, current_speed - 10)
             /\ IF last_command # MotorCommand_CMD_STOP
                THEN /\ k_wire'.op \in {"sent", "error"}
                     /\ k_wire'.id = CAN_ID_MOTOR_CMD
                     /\ k_wire'.data = <<last_command, current_speed', 0, 0, 0, 0, 0, 0>>
                ELSE k_wire' = NoWire
      ]_vars

\* the speed has been stepped down to 0 and Forward has gone out again with speed 0
C20_Witness ==
    /\ current_speed = 0
    /\ last_command = MotorCommand_CMD_FORWARD
    /\ k_wire = BusOp("sent", CAN_ID_MOTOR_CMD,
                      <<MotorCommand_CMD_FORWARD, 0, 0, 0, 0, 0, 0, 0>>)

====
